---------------------------- MODULE Spec2Model ----------------------------
(***************************************************************************)
(* A model of the two batch utilities of GetCsvInfo:                       *)
(*   refactor_csv.py         the pattern classifier                        *)
(*   useless_process_csv.py  the column projector                          *)
(* Text is a sequence of one-character strings.  A CSV file is its header  *)
(* and its rows of raw cell text; pandas.read_csv turns it into a table of *)
(* typed values, column by column.                                        *)
(***************************************************************************)
EXTENDS Naturals, Sequences, FiniteSets, TLC

VARIABLES
    patterns,     \* refactor_csv.main: pattern_mapping, in the mapping's order
    csv_mapping,  \* useless_process_csv.main: csv_columns_mapping
    input_dir,    \* file name -> the file stored under it in the input directory
    output_dir,   \* file name -> what is stored under it in the output directory
    pc,           \* where main is
    to_delete,    \* refactor_csv.main: what output_dir.glob("*.csv") still yields
    csv_files,    \* list(input_dir.glob("*.csv"))
    idx,          \* number of files of csv_files the loop has taken
    handled,      \* per file taken, what its handling did
    log           \* the logger's records, in order

vars == <<patterns, csv_mapping, input_dir, output_dir, pc, to_delete,
          csv_files, idx, handled, log>>

-----------------------------------------------------------------------------
(* Bounds of the checked inputs *)

MaxRules == 2
MaxRows == 2
MaxFiles == 2
MaxParts == 2
MaxCols == 2
MaxRequested == 3

-----------------------------------------------------------------------------
(* Sequences and text *)

Range(s) == {s[i] : i \in 1..Len(s)}

SeqsUpTo(S, n) == UNION {[1..k -> S] : k \in 0..n}

Drop(s, k) == SubSeq(s, k + 1, Len(s))

RECURSIVE Flatten(_)
Flatten(ss) == IF ss = <<>> THEN <<>> ELSE Head(ss) \o Flatten(Tail(ss))

\* the orderings of a finite set, as sequences without repetition
Orderings(S) ==
    {s \in [1..Cardinality(S) -> S] : \A i, j \in 1..Cardinality(S) : s[i] = s[j] => i = j}

EndsWith(s, suffix) ==
    /\ Len(s) >= Len(suffix)
    /\ SubSeq(s, Len(s) - Len(suffix) + 1, Len(s)) = suffix

\* needle in haystack, for str
Contains(haystack, needle) ==
    \E k \in 0..(Len(haystack) - Len(needle)) :
        SubSeq(haystack, k + 1, k + Len(needle)) = needle

Whitespace == {" "}

RECURSIVE LStrip(_)
LStrip(s) == IF s # <<>> /\ Head(s) \in Whitespace THEN LStrip(Tail(s)) ELSE s

RECURSIVE RStrip(_)
RStrip(s) ==
    IF s # <<>> /\ s[Len(s)] \in Whitespace THEN RStrip(SubSeq(s, 1, Len(s) - 1)) ELSE s

\* str.strip()
Strip(s) == RStrip(LStrip(s))

DotCsv == <<".", "c", "s", "v">>

\* Path.glob("*.csv")
IsCsvName(name) == EndsWith(name, DotCsv)

-----------------------------------------------------------------------------
(* Values of a table cell as Python sees them *)

None == [t |-> "None", v |-> <<>>]
NaN == [t |-> "nan", v |-> <<>>]
PyStr(s) == [t |-> "str", v |-> s]
PyInt(digits) == [t |-> "int", v |-> digits]
PyFloat(digits) == [t |-> "float", v |-> digits]    \* the float digits.0

Digits == {"0", "1", "2"}

IsIntText(s) == s # <<>> /\ \A i \in 1..Len(s) : s[i] \in Digits

\* str(value)
Str(val) ==
    CASE val.t = "None" -> <<"N", "o", "n", "e">>
      [] val.t = "nan" -> <<"n", "a", "n">>
      [] val.t = "int" -> val.v
      [] val.t = "float" -> val.v \o <<".", "0">>
      [] OTHER -> val.v

\* pd.isna(value)
IsNa(val) == val.t \in {"None", "nan"}

\* truth value of a configuration entry: None and "" are false
Truthy(val) == val.t = "str" /\ val.v # <<>>

\* pandas' type inference for one column of raw cells: an empty cell is NaN;
\* a column of integers is int64, unless a cell is empty, which makes it float64
ColumnValues(cells) ==
    LET filled == {i \in 1..Len(cells) : cells[i] # <<>>}
        allInt == \A i \in filled : IsIntText(cells[i])
    IN  [i \in 1..Len(cells) |->
            IF cells[i] = <<>> THEN NaN
            ELSE IF ~allInt THEN PyStr(cells[i])
            ELSE IF filled = 1..Len(cells) THEN PyInt(cells[i])
            ELSE PyFloat(cells[i])]

ColumnIndex(header, col) == CHOOSE i \in 1..Len(header) : header[i] = col

\* pd.read_csv of a readable file: the columns and, per row, column -> value
read_csv(file) ==
    LET cols == Range(file.header)
        column(c) == ColumnValues([r \in 1..Len(file.rows) |->
                                      file.rows[r][ColumnIndex(file.header, c)]])
    IN  [columns |-> file.header,
         rows |-> [r \in 1..Len(file.rows) |-> [c \in cols |-> column(c)[r]]]]

\* row.get(col): None when the row has no such column
RowGet(row, col) == IF col \in DOMAIN row THEN row[col] ELSE None

-----------------------------------------------------------------------------
(* Regular expressions: literals, ".", a postfix "*", and "(" opening a    *)
(* group.  The patterns used here never close a group.                     *)

\* re.error on compiling: an unterminated group, or nothing to repeat
ReError(p) ==
    \/ \E i \in 1..Len(p) : p[i] = "("
    \/ p # <<>> /\ p[1] = "*"

AtomMatches(atom, ch) == atom = "." \/ atom = ch

RECURSIVE MatchHere(_, _)
\* some prefix of s is matched by p
MatchHere(p, s) ==
    IF p = <<>> THEN TRUE
    ELSE IF Len(p) >= 2 /\ p[2] = "*"
    THEN \E k \in 0..Len(s) :
            /\ \A i \in 1..k : AtomMatches(p[1], s[i])
            /\ MatchHere(Drop(p, 2), Drop(s, k))
    ELSE /\ s # <<>>
         /\ AtomMatches(p[1], s[1])
         /\ MatchHere(Tail(p), Tail(s))

\* re.match(p, s) is not None, for a pattern that compiles
ReMatch(p, s) == MatchHere(p, s)


-----------------------------------------------------------------------------
(* refactor_csv.py: the classifier of one file *)

LogRec(level, what) == [level |-> level, what |-> what]

\* hashlib.md5(text).hexdigest(): the digest is modelled as an injective function of the text
Md5(text) == <<"md5", text>>

\* generate_hash(row), row being the item built from a matched row
generate_hash(item) ==
    Md5(Str(item.content) \o Str(item.x) \o Str(item.y) \o Str(item.z) \o Str(item.layer))

\* the item appended to results for a matched row
MakeItem(row, content_str) ==
    LET item == [content |-> PyStr(content_str),
                 x |-> RowGet(row, "x"),
                 y |-> RowGet(row, "y"),
                 z |-> RowGet(row, "z"),
                 layer |-> RowGet(row, "layer"),
                 style |-> RowGet(row, "style")]
    IN  [content |-> item.content, x |-> item.x, y |-> item.y, z |-> item.z,
         layer |-> item.layer, style |-> item.style, id |-> generate_hash(item)]

\* one pass of the body of "for _, pattern_config in patterns.items()":
\*   "skip"   no code: continue
\*   "error"  re.match raised re.error, which is logged
\*   "code"   the code matched; "abbr" the abbreviation matched: append and break
\*   "none"   neither matched
RuleOutcome(rule, content_str) ==
    LET regex == rule.code
        abbreviation == rule.abbreviation
    IN  IF ~Truthy(regex) THEN "skip"
        ELSE IF ReError(regex.v) THEN "error"
        ELSE IF ReMatch(regex.v, content_str) THEN "code"
        ELSE IF Truthy(abbreviation) /\ content_str = abbreviation.v THEN "abbr"
        ELSE "none"

Hit == {"code", "abbr"}

RECURSIVE EvalFrom(_, _, _)
EvalFrom(rules, content_str, i) ==
    IF i > Len(rules) THEN <<>>
    ELSE LET o == RuleOutcome(rules[i], content_str)
         IN  IF o \in Hit THEN <<o>>
             ELSE <<o>> \o EvalFrom(rules, content_str, i + 1)

RECURSIVE EvalFromNoBreak(_, _, _)
EvalFromNoBreak(rules, content_str, i) ==
    IF i > Len(rules) THEN <<>>
    ELSE <<RuleOutcome(rules[i], content_str)>> \o EvalFromNoBreak(rules, content_str, i + 1)

\* the rule loop without its "break": every rule is evaluated
MatchRulesNoBreak(rules, content_str) == EvalFromNoBreak(rules, content_str, 1)

RECURSIVE EvalFromStopOnError(_, _, _)
EvalFromStopOnError(rules, content_str, i) ==
    IF i > Len(rules) THEN <<>>
    ELSE LET o == RuleOutcome(rules[i], content_str)
         IN  IF o \in Hit \cup {"error"} THEN <<o>>
             ELSE <<o>> \o EvalFromStopOnError(rules, content_str, i + 1)

\* the rule loop with re.error caught outside it: the error ends the loop
MatchRulesStopOnError(rules, content_str) == EvalFromStopOnError(rules, content_str, 1)

\* the rule loop for one row: the outcome of each rule it evaluated, in order
MatchRules(rules, content_str) == EvalFrom(rules, content_str, 1)

\* the row loop's work on row r of the table
EvalRow(df, rules, r) ==
    LET content == df.rows[r]["content"]
        content_str == Strip(Str(content))
        skipped == IsNa(content) \/ content = PyStr(<<>>)
        trace == IF skipped THEN <<>> ELSE MatchRules(rules, content_str)
        hits == SelectSeq([k \in 1..Len(trace) |-> [o |-> trace[k], by |-> k]],
                          LAMBDA h : h.o \in Hit)
    IN  [skipped |-> skipped,
         content_str |-> content_str,
         trace |-> trace,
         results |-> [k \in 1..Len(hits) |->
                         [item |-> MakeItem(df.rows[r], content_str),
                          src |-> r, by |-> hits[k].by]],
         log |-> SelectSeq([k \in 1..Len(trace) |->
                               IF trace[k] = "error"
                               THEN LogRec("ERROR", "regex") ELSE LogRec("", "")],
                           LAMBDA l : l.level # "")]

OutputCols == <<"id", "content", "x", "y", "z", "layer", "style">>

\* process_csv_file(input_file, output_file, patterns, logger): what it did,
\* what it wrote and what it logged
process_csv_file(file, rules) ==
    IF file.kind # "ok"
    THEN [status |-> "error", evals |-> <<>>, results |-> <<>>,
          log |-> <<LogRec("INFO", "reading"), LogRec("ERROR", "file")>>]
    ELSE LET df == read_csv(file) IN
         IF "content" \notin Range(df.columns)
         THEN [status |-> "nocontent", evals |-> <<>>, results |-> <<>>,
               log |-> <<LogRec("INFO", "reading"), LogRec("WARNING", "nocontent")>>]
         ELSE LET evals == [r \in 1..Len(df.rows) |-> EvalRow(df, rules, r)]
                  results == Flatten([r \in 1..Len(df.rows) |-> evals[r].results])
                  rowlog == Flatten([r \in 1..Len(df.rows) |-> evals[r].log])
              IN  [status |-> IF results # <<>> THEN "saved" ELSE "nomatch",
                   evals |-> evals,
                   results |-> results,
                   log |-> <<LogRec("INFO", "reading")>> \o rowlog \o
                           <<LogRec("INFO", IF results # <<>> THEN "saved" ELSE "nomatch")>>]

\* result_df[cols], as written by to_csv
ResultTable(results) ==
    [cols |-> OutputCols, rows |-> [k \in 1..Len(results) |-> results[k].item]]

Prefixed(prefix, name) == prefix \o name

RefactoredPrefix == <<"r", "e", "f", "a", "c", "t", "o", "r", "e", "d", "_">>

\* to_csv(output_file) after emptying the directory
WriteOutputPurging(dir, name, table) == [n \in {name} |-> table]

\* to_csv(output_file): the file is created or replaced
WriteOutput(dir, name, table) ==
    [n \in DOMAIN dir \cup {name} |-> IF n = name THEN table ELSE dir[n]]

\* Path.unlink()
Unlink(dir, name) == [n \in DOMAIN dir \ {name} |-> dir[n]]

-----------------------------------------------------------------------------
(* refactor_csv.py: main *)

NoPatterns ==
    /\ pc = "start"
    /\ patterns = <<>>
    /\ pc' = "exit"
    /\ log' = Append(log, LogRec("ERROR", "nopatterns"))
    /\ UNCHANGED <<patterns, csv_mapping, input_dir, output_dir, to_delete,
                   csv_files, idx, handled>>

\* the patterns are there and the output directory exists: its *.csv files are listed
BeginClean ==
    /\ pc = "start"
    /\ patterns # <<>>
    /\ pc' = "clean"
    /\ to_delete' = {n \in DOMAIN output_dir : IsCsvName(n)}
    /\ log' = Append(log, LogRec("INFO", "cleaning"))
    /\ UNCHANGED <<patterns, csv_mapping, input_dir, output_dir, csv_files, idx, handled>>

UnlinkOk(name) ==
    /\ pc = "clean"
    /\ name \in to_delete
    /\ output_dir' = Unlink(output_dir, name)
    /\ to_delete' = to_delete \ {name}
    /\ log' = Append(log, LogRec("DEBUG", "deleted"))
    /\ UNCHANGED <<patterns, csv_mapping, input_dir, pc, csv_files, idx, handled>>

\* unlink raised: the exception is logged and the loop goes on
UnlinkFail(name) ==
    /\ pc = "clean"
    /\ name \in to_delete
    /\ to_delete' = to_delete \ {name}
    /\ log' = Append(log, LogRec("ERROR", "unlink"))
    /\ UNCHANGED <<patterns, csv_mapping, input_dir, output_dir, pc, csv_files, idx,
                   handled>>

InputCsvNames == {n \in DOMAIN input_dir : IsCsvName(n)}

GlobEmpty ==
    /\ pc = "clean"
    /\ to_delete = {}
    /\ InputCsvNames = {}
    /\ pc' = "exit"
    /\ log' = Append(log, LogRec("WARNING", "nofiles"))
    /\ UNCHANGED <<patterns, csv_mapping, input_dir, output_dir, to_delete, csv_files,
                   idx, handled>>

\* glob yields the directory's *.csv files in an order of the file system's
Glob ==
    /\ pc = "clean"
    /\ to_delete = {}
    /\ InputCsvNames # {}
    /\ csv_files' \in Orderings(InputCsvNames)
    /\ pc' = "loop"
    /\ UNCHANGED <<patterns, csv_mapping, input_dir, output_dir, to_delete, idx,
                   handled, log>>

\* one pass of "for csv_file in csv_files"
ProcessFile ==
    /\ pc = "loop"
    /\ idx < Len(csv_files)
    /\ LET name == csv_files[idx + 1]
           output_file == Prefixed(RefactoredPrefix, name)
           res == process_csv_file(input_dir[name], patterns)
       IN  /\ output_dir' = IF res.status = "saved"
                            THEN WriteOutput(output_dir, output_file,
                                             ResultTable(res.results))
                            ELSE output_dir
           /\ handled' = Append(handled, [name |-> name, status |-> res.status,
                                          evals |-> res.evals, results |-> res.results])
           /\ log' = log \o res.log
    /\ idx' = idx + 1
    /\ UNCHANGED <<patterns, csv_mapping, input_dir, pc, to_delete, csv_files>>

Complete ==
    /\ pc = "loop"
    /\ idx = Len(csv_files)
    /\ pc' = "done"
    /\ log' = Append(log, LogRec("INFO", "complete"))
    /\ UNCHANGED <<patterns, csv_mapping, input_dir, output_dir, to_delete, csv_files,
                   idx, handled>>

NextRefactor ==
    \/ NoPatterns
    \/ BeginClean
    \/ \E name \in to_delete : UnlinkOk(name)
    \/ \E name \in to_delete : UnlinkFail(name)
    \/ GlobEmpty
    \/ Glob
    \/ ProcessFile
    \/ Complete

-----------------------------------------------------------------------------
(* The checked inputs of the classifier *)

EmptyDir == [n \in {} |-> <<>>]

Rule(code, abbreviation) == [code |-> code, abbreviation |-> abbreviation]

Rules ==
    { Rule(PyStr(<<"a">>), None),
      Rule(None, PyStr(<<"a", "b">>)),
      Rule(PyStr(<<".", "*">>), None),
      Rule(PyStr(<<"(">>), PyStr(<<"a", "b">>)),
      Rule(PyStr(<<"b">>), PyStr(<<"a", "b">>)) }

Contents == { <<>>, <<" ">>, <<"a", "b">>, <<" ", "a", "b", " ">> }

CsvFile(header, rows) == [kind |-> "ok", header |-> header, rows |-> rows]

Unreadable == [kind |-> "unreadable", header |-> <<>>, rows |-> <<>>]

FileNames ==
    << <<"a">> \o DotCsv, <<"b">> \o DotCsv, <<"c">> \o DotCsv, <<"d">> \o DotCsv >>

NotesTxt == <<"n", ".", "t", "x", "t">>

\* rules and contents vary; one file
InitMatch ==
    /\ patterns \in SeqsUpTo(Rules, MaxRules)
    /\ \E rows \in SeqsUpTo({<<c, <<"1">>>> : c \in Contents}, MaxRows) :
          input_dir = [n \in {FileNames[1]} |-> CsvFile(<<"content", "x">>, rows)]
    /\ output_dir = EmptyDir

FullHeader == <<"content", "x", "y", "z", "layer", "style">>

FieldFiles ==
    {CsvFile(FullHeader, rows) :
        rows \in SeqsUpTo({<<<<"a">>, x, <<"2">>, <<"0">>, <<"L">>, <<>>>> :
                              x \in {<<>>, <<"1">>}}, MaxRows)}
    \cup
    {CsvFile(<<"layer", "content">>, rows) :
        rows \in SeqsUpTo({<<<<"L">>, <<"a">>>>}, MaxRows)}

\* the coordinate cells and columns vary; two files, one rule
InitFields ==
    /\ patterns = <<Rule(PyStr(<<"a">>), None)>>
    /\ input_dir \in [{FileNames[1], FileNames[2]} -> FieldFiles]
    /\ output_dir = EmptyDir

BatchFiles ==
    { Unreadable,
      CsvFile(<<"x">>, << <<<<"1">>>> >>),
      CsvFile(<<"content">>, << <<<<"a">>>> >>) }

\* a file left in the output directory by an earlier run
Stale == [cols |-> <<"stale">>, rows |-> <<>>]

StaleNames ==
    { Prefixed(RefactoredPrefix, FileNames[1]), <<"o", "l", "d">> \o DotCsv, NotesTxt }

\* the directories vary; one rule
InitBatch ==
    /\ patterns = <<Rule(PyStr(<<"a">>), None)>>
    /\ \E names \in SUBSET {FileNames[i] : i \in 1..MaxFiles} :
          \E files \in [names -> BatchFiles] :
              input_dir = [n \in names \cup {NotesTxt} |->
                              IF n = NotesTxt THEN Unreadable ELSE files[n]]
    /\ \E names \in SUBSET StaleNames : output_dir = [n \in names |-> Stale]

InitRefactor ==
    /\ InitMatch \/ InitFields \/ InitBatch
    /\ csv_mapping = EmptyDir
    /\ pc = "start"
    /\ to_delete = {}
    /\ csv_files = <<>>
    /\ idx = 0
    /\ handled = <<>>
    /\ log = <<>>

SpecRefactor == InitRefactor /\ [][NextRefactor]_vars

-----------------------------------------------------------------------------
(* Claims about the classifier *)

Handled == {handled[k] : k \in 1..Len(handled)}

\* row r of the table read from the file a handled entry is about
SrcRow(h, r) == read_csv(input_dir[h.name]).rows[r]

SrcContent(h, r) == Strip(Str(SrcRow(h, r)["content"]))

NonEmptyContent(h, r) ==
    /\ ~IsNa(SrcRow(h, r)["content"])
    /\ SrcContent(h, r) # <<>>

Emitted(h, r) == \E k \in 1..Len(h.results) : h.results[k].src = r

\* a rule matches as the specification words it: the code prefix-matches, or
\* the content equals the abbreviation
SpecMatches(rule, s) ==
    \/ Truthy(rule.code) /\ ~ReError(rule.code.v) /\ ReMatch(rule.code.v, s)
    \/ Truthy(rule.abbreviation) /\ s = rule.abbreviation.v

\* C1: a row whose trimmed, non-empty content equals the abbreviation of a
\* rule that defines no code, and that matches no earlier rule, is emitted
C1_AbbreviationOnlyRuleMatches ==
    \A h \in Handled : \A r \in 1..Len(h.evals) :
        ( /\ NonEmptyContent(h, r)
          /\ \E i \in 1..Len(patterns) :
                /\ ~Truthy(patterns[i].code)
                /\ Truthy(patterns[i].abbreviation)
                /\ SrcContent(h, r) = patterns[i].abbreviation.v
                /\ \A j \in 1..(i - 1) : ~SpecMatches(patterns[j], SrcContent(h, r)) )
        => Emitted(h, r)

\* C2: no record comes from a row whose content is null or empty after trimming
C2_EmptyContentNeverEmitted ==
    \A h \in Handled : \A k \in 1..Len(h.results) :
        NonEmptyContent(h, h.results[k].src)

\* the rule's test in the loop succeeds: it has a code that compiles, and the
\* code prefix-matches or the content equals the abbreviation
Succeeds(rule, s) ==
    /\ Truthy(rule.code)
    /\ ~ReError(rule.code.v)
    /\ \/ ReMatch(rule.code.v, s)
       \/ Truthy(rule.abbreviation) /\ s = rule.abbreviation.v

TextOrEmpty(val) == IF IsNa(val) THEN <<>> ELSE Str(val)

\* C4: the id is the digest of content, x, y, z, layer concatenated, a
\* missing or null field contributing the empty string
C4_IdDigestsFieldsMissingAsEmpty ==
    \A h \in Handled : \A k \in 1..Len(h.results) :
        LET rec == h.results[k]
            row == SrcRow(h, rec.src)
        IN  rec.item.id = Md5(Str(rec.item.content)
                              \o TextOrEmpty(RowGet(row, "x"))
                              \o TextOrEmpty(RowGet(row, "y"))
                              \o TextOrEmpty(RowGet(row, "z"))
                              \o TextOrEmpty(RowGet(row, "layer")))

Absent == <<"<absent>">>

\* the text of a cell in the file itself
RawCell(file, r, col) ==
    IF col \in Range(file.header)
    THEN file.rows[r][ColumnIndex(file.header, col)]
    ELSE Absent

HashedFields == <<"content", "x", "y", "z", "layer">>

\* C5: two classified rows with the same content, x, y, z and layer have the
\* same id, whatever file they are in and whatever the other rows hold
C5_IdDependsOnFieldsOnly ==
    \A h1, h2 \in Handled :
        \A k1 \in 1..Len(h1.results), k2 \in 1..Len(h2.results) :
            (\A i \in 1..Len(HashedFields) :
                RawCell(input_dir[h1.name], h1.results[k1].src, HashedFields[i])
                    = RawCell(input_dir[h2.name], h2.results[k2].src, HashedFields[i]))
            => h1.results[k1].item.id = h2.results[k2].item.id

Malformed(rule) == Truthy(rule.code) /\ ReError(rule.code.v)

RegexErrorsLogged == Len(SelectSeq(log, LAMBDA l : l = LogRec("ERROR", "regex")))

RECURSIVE SumOver(_, _)
SumOver(f, S) ==
    IF S = {} THEN 0
    ELSE LET e == CHOOSE e \in S : TRUE IN f[e] + SumOver(f, S \ {e})

\* the malformed rules the loop reaches: those no earlier rule's success precedes
ReachedMalformed(s) ==
    {i \in 1..Len(patterns) :
        Malformed(patterns[i]) /\ \A j \in 1..(i - 1) : ~Succeeds(patterns[j], s)}

\* C10: a malformed code logs an error and emits nothing for the row, the
\* rules after it are still evaluated, and so are the rows after that row
C10_MalformedRegexIsSkipped ==
    /\ \A h \in Handled : \A r \in 1..Len(h.evals) :
          NonEmptyContent(h, r) =>
              \A i \in ReachedMalformed(SrcContent(h, r)) :
                  /\ h.status \in {"saved", "nomatch"}
                  /\ Len(h.evals[r].trace) >= i
                  /\ h.evals[r].trace[i] = "error"
                  /\ \A k \in 1..Len(h.results) :
                        h.results[k].src = r => h.results[k].by # i
                  /\ i < Len(patterns) => Len(h.evals[r].trace) > i
                  /\ Emitted(h, r) <=>
                        \E j \in 1..Len(patterns) : Succeeds(patterns[j], SrcContent(h, r))
                  /\ Len(h.evals) = Len(input_dir[h.name].rows)
                  /\ \A r2 \in (r + 1)..Len(h.evals) :
                        NonEmptyContent(h, r2) =>
                            (Emitted(h, r2) <=>
                                \E j \in 1..Len(patterns) :
                                    Succeeds(patterns[j], SrcContent(h, r2)))
    /\ RegexErrorsLogged =
          SumOver([h \in Handled |->
                      SumOver([r \in 1..Len(h.evals) |->
                                  IF SrcRow(h, r)["content"].t = "str"
                                  THEN Cardinality(ReachedMalformed(SrcContent(h, r)))
                                  ELSE 0],
                              1..Len(h.evals))],
                  Handled)

\* a malformed rule was evaluated, a later rule classified the row, and a
\* later row was classified as well
C10_Witness ==
    \E h \in Handled : \E r \in 1..Len(h.evals) :
        /\ \E i \in 1..Len(h.evals[r].trace) :
              /\ h.evals[r].trace[i] = "error"
              /\ i < Len(h.evals[r].trace)
        /\ Emitted(h, r)
        /\ \E r2 \in (r + 1)..Len(h.evals) : Emitted(h, r2)
        /\ RegexErrorsLogged >= 1

OutputCsvNames == {n \in DOMAIN output_dir : IsCsvName(n)}

SavedNames == {Prefixed(RefactoredPrefix, h.name) : h \in {g \in Handled : g.status = "saved"}}

UnlinkFailed == \E k \in 1..Len(log) : log[k] = LogRec("ERROR", "unlink")

\* C9: files leave the output directory only in the cleaning pass, before any
\* input file is processed; what the run wrote stays; and after a completed
\* run without a failed deletion the *.csv files there are the run's own
C9_DeletionOnlyAtBatchStart ==
    /\ [][(\E n \in DOMAIN output_dir : n \notin DOMAIN output_dir')
            => (pc = "clean" /\ handled = <<>> /\ idx = 0 /\ pc' = "clean")]_vars
    /\ [](SavedNames \subseteq DOMAIN output_dir)
    /\ [](\A n \in SavedNames : output_dir[n] # Stale)
    /\ []((pc = "done" /\ ~UnlinkFailed) => OutputCsvNames = SavedNames)

\* a run that deleted stale output, wrote two files and completed
C9_Witness ==
    /\ pc = "done"
    /\ ~UnlinkFailed
    /\ \E k \in 1..Len(log) : log[k] = LogRec("DEBUG", "deleted")
    /\ Cardinality(SavedNames) >= 2

-----------------------------------------------------------------------------
(* useless_process_csv.py: the column projector *)

\* the four characters of the keywords' common suffix, one string each
Suffix == <<"neng", "hao", "ji", "liang">>

\* get_file_keyword: keywords, in the order they are tested
keywords ==
    << <<"L", "3", "M", "2">> \o Suffix,
       <<"L", "3", "M", "1">> \o Suffix,
       <<"L", "2", "M">> \o Suffix,
       <<"L", "1", "M", "2">> \o Suffix,
       <<"L", "1", "M", "1">> \o Suffix,
       <<"B", "2">> \o Suffix,
       <<"B", "1">> \o Suffix,
       <<"L", "3">> \o Suffix,
       <<"L", "2">> \o Suffix,
       <<"L", "1">> \o Suffix >>

Default == <<"d", "e", "f", "a", "u", "l", "t">>

\* Path(filename).stem: the name up to its last dot, a leading or trailing dot not counting
Stem(filename) ==
    LET dots == {i \in 2..(Len(filename) - 1) : filename[i] = "."}
    IN  IF dots = {} THEN filename
        ELSE SubSeq(filename, 1, (CHOOSE i \in dots : \A j \in dots : j <= i) - 1)

RECURSIVE FirstKeywordFrom(_, _)
FirstKeywordFrom(name, i) ==
    IF i > Len(keywords) THEN Default
    ELSE IF Contains(name, keywords[i]) THEN keywords[i]
    ELSE FirstKeywordFrom(name, i + 1)

RECURSIVE LastKeywordFrom(_, _)
LastKeywordFrom(name, i) ==
    IF i = 0 THEN Default
    ELSE IF Contains(name, keywords[i]) THEN keywords[i]
    ELSE LastKeywordFrom(name, i - 1)

\* get_file_keyword testing the keywords from the last to the first
get_file_keyword_reversed(filename) == LastKeywordFrom(Stem(filename), Len(keywords))

get_file_keyword(filename) == FirstKeywordFrom(Stem(filename), 1)

RECURSIVE Keep(_, _, _)
\* [col for col in columns if (col in available) = wanted]
Keep(columns, available, wanted) ==
    IF columns = <<>> THEN <<>>
    ELSE (IF (Head(columns) \in Range(available)) = wanted THEN <<Head(columns)>> ELSE <<>>)
         \o Keep(Tail(columns), available, wanted)

\* the existing columns taken in the source table's order
ExistingColumnsInSourceOrder(columns, available) ==
    SelectSeq(available, LAMBDA c : c \in Range(columns))

ExistingColumns(columns, available) == Keep(columns, available, TRUE)

MissingColumns(columns, available) == Keep(columns, available, FALSE)

\* df[existing_columns]
Project(df, existing_columns) ==
    [cols |-> existing_columns,
     rows |-> [r \in 1..Len(df.rows) |->
                 [i \in 1..Len(existing_columns) |-> df.rows[r][existing_columns[i]]]]]

\* process_csv_file(input_file, output_file, columns, logger) of the projector
process_csv_file_columns(file, columns) ==
    IF file.kind # "ok"
    THEN [status |-> "error", table |-> Stale,
          log |-> <<LogRec("INFO", "reading"), LogRec("ERROR", "file")>>]
    ELSE LET df == read_csv(file)
             available_columns == df.columns
             missing_columns == MissingColumns(columns, available_columns)
             existing_columns == ExistingColumns(columns, available_columns)
             warn == IF missing_columns # <<>>
                     THEN <<LogRec("WARNING", "missing")>> ELSE <<>>
         IN  IF existing_columns = <<>>
             THEN [status |-> "nocolumns", table |-> Stale,
                   log |-> <<LogRec("INFO", "reading")>> \o warn \o
                           <<LogRec("ERROR", "nocolumns")>>]
             ELSE [status |-> "saved", table |-> Project(df, existing_columns),
                   log |-> <<LogRec("INFO", "reading")>> \o warn \o
                           <<LogRec("INFO", "saved")>>]

FilteredPrefix == <<"f", "i", "l", "t", "e", "r", "e", "d", "_">>

\* csv_mapping[keyword]["columns"] raises KeyError
ColumnsKeyError(mapping, keyword) ==
    keyword \in DOMAIN mapping /\ "columns" \notin DOMAIN mapping[keyword]

\* the key of the mapping whose entry gives the file's columns
EntryUsed(mapping, keyword) == IF keyword \in DOMAIN mapping THEN keyword ELSE Default

\* csv_mapping[keyword]["columns"], or csv_mapping.get("default", {}).get("columns", [])
SelectColumns(mapping, keyword) ==
    IF keyword \in DOMAIN mapping THEN mapping[keyword].columns
    ELSE IF Default \in DOMAIN mapping /\ "columns" \in DOMAIN mapping[Default]
    THEN mapping[Default].columns
    ELSE <<>>

FindNoFiles ==
    /\ pc = "start"
    /\ InputCsvNames = {}
    /\ pc' = "exit"
    /\ log' = Append(log, LogRec("WARNING", "nofiles"))
    /\ UNCHANGED <<patterns, csv_mapping, input_dir, output_dir, to_delete, csv_files,
                   idx, handled>>

FindFiles ==
    /\ pc = "start"
    /\ InputCsvNames # {}
    /\ csv_files' \in Orderings(InputCsvNames)
    /\ pc' = "loop"
    /\ log' = Append(log, LogRec("INFO", "found"))
    /\ UNCHANGED <<patterns, csv_mapping, input_dir, output_dir, to_delete, idx, handled>>

\* a pass of "for csv_file in csv_files" that raises KeyError, which nothing in main catches
KeyErrorOnColumns ==
    /\ pc = "loop"
    /\ idx < Len(csv_files)
    /\ ColumnsKeyError(csv_mapping, get_file_keyword(csv_files[idx + 1]))
    /\ pc' = "crashed"
    /\ log' = Append(log, LogRec("INFO", "file"))
    /\ UNCHANGED <<patterns, csv_mapping, input_dir, output_dir, to_delete, csv_files,
                   idx, handled>>

\* a pass of "for csv_file in csv_files" that ends
HandleFile ==
    /\ pc = "loop"
    /\ idx < Len(csv_files)
    /\ LET name == csv_files[idx + 1]
           keyword == get_file_keyword(name)
           columns == SelectColumns(csv_mapping, keyword)
           output_file == Prefixed(FilteredPrefix, name)
           res == process_csv_file_columns(input_dir[name], columns)
           found == keyword \in DOMAIN csv_mapping
       IN  /\ ~ColumnsKeyError(csv_mapping, keyword)
           /\ output_dir' = IF columns # <<>> /\ res.status = "saved"
                            THEN WriteOutput(output_dir, output_file, res.table)
                            ELSE output_dir
           /\ handled' = Append(handled,
                  [name |-> name, keyword |-> keyword,
                   entry |-> EntryUsed(csv_mapping, keyword), columns |-> columns,
                   status |-> IF columns = <<>> THEN "skipped" ELSE res.status])
           /\ log' = log
                  \o <<LogRec("INFO", "file"),
                       IF found THEN LogRec("INFO", "description")
                       ELSE LogRec("WARNING", "usedefault")>>
                  \o (IF columns = <<>> THEN <<LogRec("WARNING", "skipped")>>
                      ELSE <<LogRec("INFO", "columns")>> \o res.log)
    /\ idx' = idx + 1
    /\ UNCHANGED <<patterns, csv_mapping, input_dir, pc, to_delete, csv_files>>

Finish ==
    /\ pc = "loop"
    /\ idx = Len(csv_files)
    /\ pc' = "done"
    /\ log' = Append(log, LogRec("INFO", "complete"))
    /\ UNCHANGED <<patterns, csv_mapping, input_dir, output_dir, to_delete, csv_files,
                   idx, handled>>

NextProject ==
    \/ FindNoFiles
    \/ FindFiles
    \/ KeyErrorOnColumns
    \/ HandleFile
    \/ Finish

-----------------------------------------------------------------------------
(* The checked inputs of the projector *)

Entry(columns) == [columns |-> columns, description |-> "d"]

\* an entry of the mapping without a "columns" key
EntryWithoutColumns == [description |-> "d"]

StemParts == {keywords[1], keywords[7], keywords[10], <<"x">>}

Stems == {Flatten(parts) : parts \in SeqsUpTo(StemParts, MaxParts) \ {<<>>}}

ColNames == {"a", "b", "c"}

RowDigits == <<"1", "2", "0", "1">>

\* a file of the given header and number of rows, each cell naming its column and row
TableOf(header, n) ==
    CsvFile(header, [r \in 1..n |-> [i \in 1..Len(header) |-> <<header[i], RowDigits[r]>>]])

Headers ==
    {h \in SeqsUpTo(ColNames, MaxCols) \ {<<>>} :
        \A i, j \in 1..Len(h) : h[i] = h[j] => i = j}

\* the file name varies, and the mapping's keys and entries; one file
InitKeyword ==
    /\ \E stem \in Stems :
          input_dir = [n \in {stem \o DotCsv} |-> TableOf(<<"a", "b">>, 1)]
    /\ \E keys \in SUBSET {keywords[1], keywords[7], Default} :
          csv_mapping \in [keys -> {Entry(<<"a">>), Entry(<<"b">>)}]
    /\ output_dir = EmptyDir

\* the requested columns and the table vary; one file, under the default entry
InitColumns ==
    /\ \E header \in Headers : \E n \in 0..MaxRows :
          input_dir = [f \in {FileNames[1]} |-> TableOf(header, n)]
    /\ \E columns \in SeqsUpTo(ColNames, MaxRequested) :
          csv_mapping = [k \in {Default} |-> Entry(columns)]
    /\ \E names \in SUBSET {Prefixed(FilteredPrefix, FileNames[1])} :
          output_dir = [n \in names |-> Stale]

ProjectNames == << keywords[7] \o DotCsv, FileNames[1], FileNames[2], FileNames[3] >>

\* the directory varies, and the mapping's entries
InitFiles ==
    /\ \E names \in SUBSET {ProjectNames[i] : i \in 1..MaxFiles} :
          \E files \in [names -> {Unreadable, TableOf(<<"a">>, 1)}] :
              input_dir = [n \in names \cup {NotesTxt} |->
                              IF n = NotesTxt THEN Unreadable ELSE files[n]]
    /\ \E keys \in SUBSET {keywords[7], Default} :
          csv_mapping \in [keys -> {Entry(<<"a">>), Entry(<<"c">>), Entry(<<>>),
                                    EntryWithoutColumns}]
    /\ output_dir = EmptyDir

InitProject ==
    /\ InitKeyword \/ InitColumns \/ InitFiles
    /\ patterns = <<>>
    /\ pc = "start"
    /\ to_delete = {}
    /\ csv_files = <<>>
    /\ idx = 0
    /\ handled = <<>>
    /\ log = <<>>

SpecProject == InitProject /\ [][NextProject]_vars

-----------------------------------------------------------------------------
(* Claims about the projector *)

\* C6: with existing the requested columns present in the source, in the
\* requested order: no file is written when existing is empty; otherwise the
\* output has the columns existing and the source's rows, in order
C6_ProjectionMatchesReference ==
    \A h \in Handled :
        LET file == input_dir[h.name]
            out == Prefixed(FilteredPrefix, h.name)
            unwritten == out \in DOMAIN output_dir => output_dir[out] = Stale
        IN  IF h.columns = <<>> THEN h.status = "skipped" /\ unwritten
            ELSE file.kind = "ok" =>
                LET existing == SelectSeq(h.columns, LAMBDA c : c \in Range(file.header))
                    df == read_csv(file)
                IN  IF existing = <<>>
                    THEN h.status = "nocolumns" /\ unwritten
                    ELSE /\ h.status = "saved"
                         /\ out \in DOMAIN output_dir
                         /\ output_dir[out].cols = existing
                         /\ Range(output_dir[out].cols) \subseteq Range(file.header)
                         /\ Len(output_dir[out].rows) = Len(file.rows)
                         /\ \A r \in 1..Len(file.rows) : \A i \in 1..Len(existing) :
                               output_dir[out].rows[r][i] = df.rows[r][existing[i]]

\* a file was written for a request that names an absent column and names
\* two present columns in another order than the source's
C6_Witness ==
    \E h \in Handled :
        LET header == input_dir[h.name].header
        IN  /\ h.status = "saved"
            /\ \E c \in Range(h.columns) : c \notin Range(header)
            /\ \E i, j \in 1..Len(h.columns) :
                  /\ i < j
                  /\ h.columns[i] \in Range(header)
                  /\ h.columns[j] \in Range(header)
                  /\ ColumnIndex(header, h.columns[i]) > ColumnIndex(header, h.columns[j])
            /\ Len(input_dir[h.name].rows) >= 2

\* the stem of a name that ends in .csv
StemOfCsv(name) == SubSeq(name, 1, Len(name) - Len(DotCsv))

Occurring(name) == {i \in 1..Len(keywords) : Contains(StemOfCsv(name), keywords[i])}

\* the first keyword of the list that occurs in the stem, "default" if none does
FirstOccurring(name) ==
    IF Occurring(name) = {} THEN Default
    ELSE keywords[CHOOSE i \in Occurring(name) : \A j \in Occurring(name) : i <= j]

DefaultList ==
    IF Default \in DOMAIN csv_mapping /\ "columns" \in DOMAIN csv_mapping[Default]
    THEN csv_mapping[Default].columns
    ELSE <<>>

\* the key is the first occurring keyword, and the list is that key's when the
\* mapping has the key and the "default" entry's when it has not
SelectionAsClaimed(h) ==
    /\ h.keyword = FirstOccurring(h.name)
    /\ IF h.keyword \in DOMAIN csv_mapping
       THEN h.entry = h.keyword /\ h.columns = csv_mapping[h.keyword].columns
       ELSE h.entry = Default /\ h.columns = DefaultList

\* C7 as claimed: the selection, and a file whose stem contains a keyword
\* that is in the mapping never uses the "default" list
C7_KeywordInMappingNeverUsesDefault ==
    \A h \in Handled :
        /\ SelectionAsClaimed(h)
        /\ (\E i \in Occurring(h.name) : keywords[i] \in DOMAIN csv_mapping)
              => h.entry # Default

\* C7 amended: the selection, and a file whose first occurring keyword is in
\* the mapping never uses the "default" list
C7_FirstKeywordInMappingNeverUsesDefault ==
    \A h \in Handled :
        /\ SelectionAsClaimed(h)
        /\ (Occurring(h.name) # {} /\ FirstOccurring(h.name) \in DOMAIN csv_mapping)
              => h.entry # Default

\* a stem with two keywords, both in the mapping beside "default", took the
\* list of the one listed first
C7_Witness ==
    \E h \in Handled :
        /\ Cardinality(Occurring(h.name)) = 2
        /\ \A i \in Occurring(h.name) : keywords[i] \in DOMAIN csv_mapping
        /\ Default \in DOMAIN csv_mapping
        /\ h.entry = FirstOccurring(h.name)
        /\ h.columns # DefaultList
        /\ \E i \in Occurring(h.name) :
              keywords[i] # h.entry /\ csv_mapping[keywords[i]] # csv_mapping[h.entry]

\* C8: once the loop has started, the run ends only with its completion
\* message, every discovered file having been handled
C8_NoFileAbortsTheRun ==
    pc \in {"done", "crashed"} => (pc = "done" /\ Len(handled) = Len(csv_files))

=============================================================================
